---- MODULE Spec2Model ----
(***************************************************************************)
(* Model of src/app.py: process_data (the CSV -> Excel / overflow CSV      *)
(* pipeline) and the Streamlit download section that consumes its result.  *)
(* A run is one call of process_data on one uploaded file; every step of   *)
(* the function is one action, in the order of the source.                 *)
(***************************************************************************)
EXTENDS Integers, Sequences, FiniteSets, TLC

(* ---------------------------- bounds ----------------------------------- *)
\* largest number of data rows of an uploaded file
MaxRows == 2
\* largest threshold passed as max_length; the Value texts of an upload are
\* MaxLen and MaxLen + 1 characters long
MaxLen == 3

(* ------------------------ configuration -------------------------------- *)
\* app.py:34
columns_to_drop ==
  <<"DefinedSchemaSystemId", "ESRS", "DR", "SUBDR", "TableLineItems", "ElementLabel">>

\* app.py:42-47
subset_for_deduplication ==
  <<"Entity", "Period", "Element",
    "DIM1", "VALUE1", "DIM2", "VALUE2", "DIM3", "VALUE3", "DIM4", "VALUE4",
    "DIM5", "VALUE5", "DIM6", "VALUE6", "DIM7", "VALUE7", "DIM8", "VALUE8",
    "DIM9", "VALUE9", "DIM10", "VALUE10">>

(* ----------------------------- cells ----------------------------------- *)
\* a cell of a DataFrame: a missing value (NaN) or a text
NaN == [isna |-> TRUE, v |-> ""]
Text(s) == [isna |-> FALSE, v |-> s]

RECURSIVE Xs(_)
Xs(n) == IF n = 0 THEN "" ELSE "x" \o Xs(n - 1)

\* the header of an uploaded file is a non-empty selection of these columns,
\* in this order (it differs from the configured orders on purpose)
HeaderUniverse == <<"DR", "Value", "Period", "ESRS", "Entity">>

\* the values a column of an uploaded file can hold; read_csv never yields
\* an empty text (an empty field is read as NaN)
CellsOf(col) ==
  CASE col = "Value"  -> {NaN, Text(Xs(MaxLen)), Text(Xs(MaxLen + 1))}
    [] col = "Entity" -> {NaN, Text("a")}
    [] col = "Period" -> {NaN, Text("p")}
    [] col = "ESRS"   -> {Text("e")}
    [] col = "DR"     -> {Text("d")}
    [] OTHER          -> {NaN}

(* ------------------------ sequence helpers ----------------------------- *)
Range(s) == {s[i] : i \in 1..Len(s)}

\* [x for x in s if Keep(x)]
RECURSIVE Filter(_, _)
Filter(s, keep) ==
  IF s = <<>> THEN <<>>
  ELSE IF Head(s) \in keep THEN <<Head(s)>> \o Filter(Tail(s), keep)
       ELSE Filter(Tail(s), keep)

(* ------------------------- uploaded files ------------------------------ *)
Headers == {Filter(HeaderUniverse, S) : S \in (SUBSET Range(HeaderUniverse)) \ {{}}}

RowsOver(cols) ==
  {r \in [Range(cols) -> UNION {CellsOf(c) : c \in Range(cols)}] :
     \A c \in Range(cols) : r[c] \in CellsOf(c)}

\* a DataFrame: its column labels in order, and its rows in order; a row
\* carries its index label (its position in the file) and its cells
Frame(cols, cellrows) ==
  [columns |-> cols,
   rows |-> [i \in 1..Len(cellrows) |-> [idx |-> i, cells |-> cellrows[i]]]]

NoFrame == [columns |-> <<>>, rows |-> <<>>]

Tables ==
  UNION {{Frame(cols, rs) : rs \in UNION {[1..n -> RowsOver(cols)] : n \in 0..MaxRows}} :
         cols \in Headers}

\* an upload is bytes that read_csv rejects, or bytes that parse to a table
Uploads == {[valid |-> FALSE, table |-> NoFrame]} \cup
           {[valid |-> TRUE, table |-> t] : t \in Tables}

(* ------------------------ DataFrame operations ------------------------- *)
\* len(df)
Count(frame) == Len(frame.rows)

\* DataFrame.empty: an axis of length 0
IsEmpty(frame) == Len(frame.columns) = 0 \/ Len(frame.rows) = 0

\* mutant of ColsIn: the present names in the table's order
ColsIn_TableOrder(names, frame) == Filter(frame.columns, Range(names))

\* [col for col in names if col in frame.columns]
ColsIn(names, frame) == Filter(names, Range(frame.columns))

\* DataFrame.drop(columns=labels, errors='ignore'): a new frame, same index
DropCols(frame, labels) ==
  LET kept == Range(frame.columns) \ Range(labels)
  IN [columns |-> Filter(frame.columns, kept),
      rows |-> [i \in 1..Len(frame.rows) |->
                  [idx |-> frame.rows[i].idx,
                   cells |-> [c \in kept |-> frame.rows[i].cells[c]]]]]

\* the tuple of a row's values on the columns of subset
KeyOf(row, subset) == [k \in 1..Len(subset) |-> row.cells[subset[k]]]

\* keep='first': walk the rows in order, keep a row whose key was not seen
RECURSIVE KeepFirst(_, _, _)
KeepFirst(rows, subset, seen) ==
  IF rows = <<>> THEN <<>>
  ELSE LET key == KeyOf(Head(rows), subset)
       IN IF key \in seen THEN KeepFirst(Tail(rows), subset, seen)
          ELSE <<Head(rows)>> \o KeepFirst(Tail(rows), subset, seen \cup {key})

\* keep='last': keep a row when no later row has its key
RECURSIVE KeepLast(_, _)
KeepLast(rows, subset) ==
  IF rows = <<>> THEN <<>>
  ELSE IF \E i \in 2..Len(rows) : KeyOf(rows[i], subset) = KeyOf(Head(rows), subset)
       THEN KeepLast(Tail(rows), subset)
       ELSE <<Head(rows)>> \o KeepLast(Tail(rows), subset)

\* mutant of DropDuplicates: keep='last'
DropDuplicates_KeepLast(frame, subset) ==
  IF IsEmpty(frame) THEN frame
  ELSE [columns |-> frame.columns, rows |-> KeepLast(frame.rows, subset)]

\* DataFrame.drop_duplicates(subset, keep='first', inplace=True).  An empty
\* frame is left as it is; otherwise duplicated() unpacks one (labels, shape)
\* pair per subset column and raises ValueError when there is none.
DropDuplicatesRaises(frame, subset) == ~IsEmpty(frame) /\ subset = <<>>

DropDuplicates(frame, subset) ==
  IF IsEmpty(frame) THEN frame
  ELSE [columns |-> frame.columns, rows |-> KeepFirst(frame.rows, subset, {})]

\* Series.astype(str): str() of every value, NaN included
AsTypeStr(cell) == IF cell.isna THEN Text("nan") ELSE Text(cell.v)

\* Series.fillna(s)
FillNa(cell, s) == IF cell.isna THEN Text(s) ELSE cell

\* df['Value'].astype(str).fillna('')
ValueText(cell) == FillNa(AsTypeStr(cell), "")

\* df['Value'] = df['Value'].astype(str).fillna('')
WithValueText(frame) ==
  [columns |-> frame.columns,
   rows |-> [i \in 1..Len(frame.rows) |->
               [idx |-> frame.rows[i].idx,
                cells |-> [c \in DOMAIN frame.rows[i].cells |->
                             IF c = "Value" THEN ValueText(frame.rows[i].cells[c])
                             ELSE frame.rows[i].cells[c]]]]]

\* mutant of Exceeds: >= in place of >
Exceeds_AtLeast(cell, limit) == Len(cell.v) >= limit

\* one entry of: Series.str.len() > max_length
Exceeds(cell, limit) == Len(cell.v) > limit

\* the boolean mask, as the set of index labels where it is True
LongValueMask(frame, limit) ==
  {frame.rows[i].idx : i \in {j \in 1..Len(frame.rows) :
                                Exceeds(frame.rows[j].cells["Value"], limit)}}

\* pd.Series([False] * len(df), index=df.index)
AllFalseMask(frame) == {}

\* mutant of Invert: the mask used without negation
Invert_NoNegation(frame, mask) == mask

\* ~mask
Invert(frame, mask) == {frame.rows[i].idx : i \in 1..Len(frame.rows)} \ mask

RECURSIVE SelectRows(_, _)
SelectRows(rows, mask) ==
  IF rows = <<>> THEN <<>>
  ELSE IF Head(rows).idx \in mask THEN <<Head(rows)>> \o SelectRows(Tail(rows), mask)
       ELSE SelectRows(Tail(rows), mask)

\* df[mask].copy()
BoolIndex(frame, mask) ==
  [columns |-> frame.columns, rows |-> SelectRows(frame.rows, mask)]

\* to_csv(index=False) / to_excel(index=False): header and records, no index
Encode(kind, frame) ==
  [kind |-> kind, header |-> frame.columns,
   records |-> [i \in 1..Len(frame.rows) |-> frame.rows[i].cells]]

(* ------------------------------ logs ----------------------------------- *)
\* a log line: which message, and the values formatted into it
Log(msg, n, m, cols) == [msg |-> msg, n |-> n, m |-> m, cols |-> cols]

(* --------------------------- return values ----------------------------- *)
EmptyDict == [k \in {} |-> Encode("none", NoFrame)]
NoResult == [keys |-> {}, success |-> FALSE, logs |-> <<>>, files |-> EmptyDict]

\* mutant of ParseFailure: the failure carries a files entry
ParseFailure_WithFiles(lg) ==
  [keys |-> {"success", "logs", "files"}, success |-> FALSE, logs |-> lg,
   files |-> EmptyDict]

\* app.py:27  return {"success": False, "logs": logs}
ParseFailure(lg) ==
  [keys |-> {"success", "logs"}, success |-> FALSE, logs |-> lg, files |-> EmptyDict]

\* mutant of ExcelFailure: the artifacts built so far are returned
ExcelFailure_WithFiles(lg, files) ==
  [keys |-> {"success", "logs", "files"}, success |-> FALSE, logs |-> lg,
   files |-> files]

\* app.py:97  return {"success": False, "logs": logs}
ExcelFailure(lg, files) ==
  [keys |-> {"success", "logs"}, success |-> FALSE, logs |-> lg, files |-> EmptyDict]

\* app.py:103  return {"success": True, "logs": logs, "files": results}
Success(lg, files) ==
  [keys |-> {"success", "logs", "files"}, success |-> TRUE, logs |-> lg, files |-> files]

\* app.py:139-163  the download buttons shown for a result
Offered(res) ==
  IF res.success /\ "files" \in res.keys
  THEN DOMAIN res.files \cap {"excel", "overflow_csv"}
  ELSE {}

(* ------------------------------ state ---------------------------------- *)
VARIABLES
  uploaded_file,   \* the upload handed to process_data
  max_length,      \* the threshold handed to process_data
  pc,              \* the next step of the run
  logs,            \* the list logs
  df,              \* the parsed table
  initial_count,   \* len(df) after parsing
  df_cleaned,      \* the table after the drop / deduplicate / text steps
  df_overflow,     \* rows whose Value text is longer than max_length
  df_excel,        \* the other rows
  results,         \* the dict results: artifact name -> payload
  result,          \* the dict process_data returned
  downloads        \* the download buttons the page shows

vars == <<uploaded_file, max_length, pc, logs, df, initial_count, df_cleaned,
          df_overflow, df_excel, results, result, downloads>>

Init ==
  /\ uploaded_file \in Uploads
  /\ max_length \in 0..MaxLen
  /\ pc = "read_csv"
  /\ logs = <<>>
  /\ df = NoFrame
  /\ initial_count = 0
  /\ df_cleaned = NoFrame
  /\ df_overflow = NoFrame
  /\ df_excel = NoFrame
  /\ results = EmptyDict
  /\ result = NoResult
  /\ downloads = {}

(* ----------------------------- actions --------------------------------- *)
\* app.py:18-31  read the upload; a parse error returns at once
ReadCsv ==
  /\ pc = "read_csv"
  /\ IF ~uploaded_file.valid
     THEN /\ logs' = Append(logs, Log("read_error", 0, 0, <<>>))
          /\ result' = ParseFailure(logs')
          /\ pc' = "returned"
          /\ UNCHANGED <<df, initial_count>>
     ELSE /\ df' = uploaded_file.table
          /\ initial_count' = Count(df')
          /\ logs' = Append(logs, Log("read_ok", initial_count', 0, <<>>))
          /\ pc' = "drop_columns"
          /\ UNCHANGED result
  /\ UNCHANGED <<uploaded_file, max_length, df_cleaned, df_overflow, df_excel,
                 results, downloads>>

\* app.py:33-39  drop the unwanted columns that are present
DropColumns ==
  /\ pc = "drop_columns"
  /\ LET cols_present == ColsIn(columns_to_drop, df)
     IN /\ df_cleaned' = DropCols(df, cols_present)
        /\ logs' = Append(logs, Log("dropped", 0, 0, cols_present))
  /\ pc' = "deduplicate"
  /\ UNCHANGED <<uploaded_file, max_length, df, initial_count, df_overflow,
                 df_excel, results, result, downloads>>

\* app.py:42-56  drop duplicate rows on the key columns that are present;
\* nothing catches an exception of drop_duplicates
Deduplicate ==
  /\ pc = "deduplicate"
  /\ LET valid_subset == ColsIn(subset_for_deduplication, df_cleaned)
     IN IF DropDuplicatesRaises(df_cleaned, valid_subset)
        THEN /\ pc' = "raised"
             /\ UNCHANGED <<df_cleaned, logs>>
        ELSE /\ df_cleaned' = DropDuplicates(df_cleaned, valid_subset)
             /\ logs' = Append(logs, Log("deduplicated",
                                         initial_count - Count(df_cleaned'),
                                         Count(df_cleaned'), <<>>))
             /\ pc' = "partition"
  /\ UNCHANGED <<uploaded_file, max_length, df, initial_count, df_overflow,
                 df_excel, results, result, downloads>>

\* app.py:58-72  turn Value into text and split the rows on its length
Partition ==
  /\ pc = "partition"
  /\ df_cleaned' = IF "Value" \in Range(df_cleaned.columns)
                   THEN WithValueText(df_cleaned) ELSE df_cleaned
  /\ LET long_value_mask ==
           IF "Value" \in Range(df_cleaned.columns)
           THEN LongValueMask(df_cleaned', max_length)
           ELSE AllFalseMask(df_cleaned')
     IN /\ df_overflow' = BoolIndex(df_cleaned', long_value_mask)
        /\ df_excel' = BoolIndex(df_cleaned', Invert(df_cleaned', long_value_mask))
  /\ logs' = Append(logs, Log("lengths", Count(df_overflow'), max_length, <<>>))
  /\ pc' = "export_csv"
  /\ UNCHANGED <<uploaded_file, max_length, df, initial_count, results, result,
                 downloads>>

\* mutant of ExportCsv: the test of df_overflow.empty is missing
ExportCsv_Unconditional ==
  /\ pc = "export_csv"
  /\ results' = ("overflow_csv" :> Encode("csv", df_overflow))
  /\ logs' = Append(logs, Log("csv_ready", Count(df_overflow), 0, <<>>))
  /\ pc' = "export_excel"
  /\ UNCHANGED <<uploaded_file, max_length, df, initial_count, df_cleaned,
                 df_overflow, df_excel, result, downloads>>

\* app.py:75-82  the overflow rows as CSV bytes
ExportCsv ==
  /\ pc = "export_csv"
  /\ IF ~IsEmpty(df_overflow)
     THEN /\ results' = ("overflow_csv" :> Encode("csv", df_overflow))
          /\ logs' = Append(logs, Log("csv_ready", Count(df_overflow), 0, <<>>))
     ELSE /\ results' = EmptyDict
          /\ UNCHANGED logs
  /\ pc' = "export_excel"
  /\ UNCHANGED <<uploaded_file, max_length, df, initial_count, df_cleaned,
                 df_overflow, df_excel, result, downloads>>

\* app.py:84-99  the other rows as a workbook; to_excel may raise, and the
\* handler returns the failure
ExportExcel ==
  /\ pc = "export_excel"
  /\ IF ~IsEmpty(df_excel)
     THEN \E to_excel_raises \in BOOLEAN :
            IF to_excel_raises
            THEN /\ logs' = Append(logs, Log("excel_error", 0, 0, <<>>))
                 /\ result' = ExcelFailure(logs', results)
                 /\ pc' = "returned"
                 /\ UNCHANGED results
            ELSE /\ results' = results @@ ("excel" :> Encode("excel", df_excel))
                 /\ logs' = Append(logs, Log("excel_ready", Count(df_excel), 0, <<>>))
                 /\ pc' = "complete"
                 /\ UNCHANGED result
     ELSE /\ logs' = Append(logs, Log("excel_empty", 0, 0, <<>>))
          /\ pc' = "complete"
          /\ UNCHANGED <<results, result>>
  /\ UNCHANGED <<uploaded_file, max_length, df, initial_count, df_cleaned,
                 df_overflow, df_excel, downloads>>

\* app.py:101-103  the successful return
Complete ==
  /\ pc = "complete"
  /\ logs' = Append(logs, Log("finished", 0, 0, <<>>))
  /\ result' = Success(logs', results)
  /\ pc' = "returned"
  /\ UNCHANGED <<uploaded_file, max_length, df, initial_count, df_cleaned,
                 df_overflow, df_excel, results, downloads>>

\* app.py:132-163  the page shows the log and the download buttons
ShowResult ==
  /\ pc = "returned"
  /\ downloads' = Offered(result)
  /\ pc' = "shown"
  /\ UNCHANGED <<uploaded_file, max_length, logs, df, initial_count, df_cleaned,
                 df_overflow, df_excel, results, result>>

Next ==
  \/ ReadCsv
  \/ DropColumns
  \/ Deduplicate
  \/ Partition
  \/ ExportCsv
  \/ ExportExcel
  \/ Complete
  \/ ShowResult

Spec == Init /\ [][Next]_vars

(* --------------------------- vocabulary -------------------------------- *)
\* the run has completed the partition step
Partitioned ==
  \/ pc \in {"export_csv", "export_excel", "complete"}
  \/ pc \in {"returned", "shown"} /\ uploaded_file.valid

\* the run has completed the deduplication step
Deduplicated == pc = "partition" \/ Partitioned

\* the run has completed the drop-columns step
Dropped == pc \in {"deduplicate", "raised"} \/ Deduplicated

\* the index labels of a frame, in row order
Labels(frame) == [i \in 1..Len(frame.rows) |-> frame.rows[i].idx]

\* s is strictly increasing
Increasing(s) == \A i, j \in 1..Len(s) : i < j => s[i] < s[j]

\* the position of x in the sequence s (0 if absent)
PosIn(s, x) == IF x \in Range(s) THEN CHOOSE i \in 1..Len(s) : s[i] = x ELSE 0

\* the rows of part are rows of whole, in the order they have in whole
InOrderOf(part, whole) ==
  /\ \A i \in 1..Len(part) : part[i] \in Range(whole)
  /\ \A i, j \in 1..Len(part) : i < j => PosIn(whole, part[i]) < PosIn(whole, part[j])

\* the effective key: the configured key columns left in the table
EffectiveKey == Range(subset_for_deduplication) \cap Range(df_cleaned.columns)

\* rows i and j of the parsed table agree on every column of the effective key
SameKey(i, j) ==
  \A c \in EffectiveKey : df.rows[i].cells[c] = df.rows[j].cells[c]

\* the deduplicated table is the first-occurrence-wins selection of the input
FirstOccurrenceWins ==
  /\ \A i \in 1..Len(df.rows) :
       (i \in Range(Labels(df_cleaned))) <=> ~(\E j \in 1..(i - 1) : SameKey(j, i))
  /\ Increasing(Labels(df_cleaned))
  /\ \A a, b \in Range(Labels(df_cleaned)) : a # b => ~SameKey(a, b)

(* ------------------------------ claims --------------------------------- *)
\* C1: once the partition step has run, every row of the deduplicated table
\* is in exactly one of df_excel and df_overflow, the two counts add up to
\* the deduplicated row count, and each partition keeps the table's order.
C1_PartitionCompleteDisjoint ==
  Partitioned =>
    /\ Range(Labels(df_excel)) \cap Range(Labels(df_overflow)) = {}
    /\ Range(Labels(df_excel)) \cup Range(Labels(df_overflow)) = Range(Labels(df_cleaned))
    /\ Count(df_excel) + Count(df_overflow) = Count(df_cleaned)
    /\ Count(df_cleaned) = logs[3].m
    /\ InOrderOf(df_excel.rows, df_cleaned.rows)
    /\ InOrderOf(df_overflow.rows, df_cleaned.rows)

C1_Witness ==
  /\ Partitioned
  /\ Count(df_excel) >= 1
  /\ Count(df_overflow) >= 1
  /\ Count(df_cleaned) = MaxRows

\* C2: with a Value column, a row is in df_overflow exactly when its Value
\* text is longer than max_length: length max_length is primary, length
\* max_length + 1 is overflow.
C2_ThresholdBoundary ==
  (Partitioned /\ "Value" \in Range(df_cleaned.columns)) =>
    \A i \in 1..Len(df_cleaned.rows) :
      LET r == df_cleaned.rows[i]
          n == Len(r.cells["Value"].v)
      IN /\ (n = max_length => r \in Range(df_excel.rows) /\ r \notin Range(df_overflow.rows))
         /\ (n = max_length + 1 =>
               r \in Range(df_overflow.rows) /\ r \notin Range(df_excel.rows))
         /\ (r \in Range(df_overflow.rows) <=> n > max_length)

C2_Witness ==
  /\ Partitioned
  /\ "Value" \in Range(df_cleaned.columns)
  /\ \E r \in Range(df_excel.rows) : Len(r.cells["Value"].v) = max_length
  /\ \E r \in Range(df_overflow.rows) : Len(r.cells["Value"].v) = max_length + 1

\* C3 as stated: whenever the deduplication step has run, the table is the
\* stable first-occurrence-wins selection on the effective key, whatever the
\* effective key is.
C3_FirstOccurrenceAnyKey == Deduplicated => FirstOccurrenceWins

\* C3 amended: whenever the deduplication step has run on a non-empty
\* effective key, a row is kept iff no earlier row has the same key tuple
\* (NaN equal to NaN), kept rows are in input order and no two share a key.
C3_FirstOccurrenceNonEmptyKey ==
  (Deduplicated /\ EffectiveKey # {}) => FirstOccurrenceWins

C3_Witness ==
  /\ pc = "partition"
  /\ Cardinality(EffectiveKey) = 2
  /\ Count(df_cleaned) < initial_count
  /\ \E i \in 1..Len(df.rows) : df.rows[i].cells["Entity"].isna

\* C4: with an empty effective key the deduplication step removes no row
\* and the run goes on to the partition step.
C4_EmptyKeyRemovesNothing ==
  (Dropped /\ EffectiveKey = {}) =>
    /\ pc # "raised"
    /\ Count(df_cleaned) = initial_count

\* C5: a parse failure returns at once: success is false, the log is the one
\* parse diagnostic, there are no artifacts and no later step has run.
C5_ParseFailure ==
  ~uploaded_file.valid =>
    /\ pc \in {"read_csv", "returned", "shown"}
    /\ df_cleaned = NoFrame /\ df_overflow = NoFrame /\ df_excel = NoFrame
    /\ results = EmptyDict
    /\ pc \in {"returned", "shown"} =>
         /\ result.success = FALSE
         /\ Len(result.logs) = 1
         /\ result.logs[1].msg = "read_error"
         /\ "files" \notin result.keys
         /\ Offered(result) = {}

C5_Witness == ~uploaded_file.valid /\ pc = "shown" /\ Len(logs) = 1

\* the run ended in the handler of to_excel
ExcelFailed ==
  /\ pc \in {"returned", "shown"}
  /\ logs[Len(logs)].msg = "excel_error"

\* the messages logged up to the spreadsheet step of a run
LogBeforeExcel ==
  <<"read_ok", "dropped", "deduplicated", "lengths">> \o
  (IF Count(df_overflow) > 0 THEN <<"csv_ready">> ELSE <<>>)

\* C6: when to_excel fails, process_data returns success = false, the log so
\* far followed by the failure line, and no artifacts: an overflow artifact
\* already built is not returned and the page offers no download.
C6_ExcelFailure ==
  ExcelFailed =>
    /\ result.success = FALSE
    /\ result.logs = logs
    /\ [i \in 1..Len(result.logs) |-> result.logs[i].msg]
         = LogBeforeExcel \o <<"excel_error">>
    /\ "files" \notin result.keys
    /\ result.files = EmptyDict
    /\ Offered(result) = {}
    /\ downloads = {}

C6_Witness ==
  /\ ExcelFailed
  /\ pc = "shown"
  /\ "overflow_csv" \in DOMAIN results
  /\ ~IsEmpty(df_excel)

\* C7: no failure leaves process_data as an uncaught exception.
C7_NothingEscapes == pc # "raised"

\* the run returned success
Succeeded == pc \in {"returned", "shown"} /\ result.success

\* C8 as stated: on success the artifacts are among excel and overflow_csv,
\* each present iff its partition has a row; an empty primary partition
\* still succeeds and the log says that no spreadsheet was made.
C8_ArtifactsIffRows ==
  Succeeded =>
    /\ "files" \in result.keys
    /\ DOMAIN result.files \subseteq {"excel", "overflow_csv"}
    /\ ("overflow_csv" \in DOMAIN result.files) <=> (Count(df_overflow) > 0)
    /\ ("excel" \in DOMAIN result.files) <=> (Count(df_excel) > 0)

\* C8 amended: on success the artifacts are among excel and overflow_csv;
\* overflow_csv is present iff df_overflow has a row, excel is present iff
\* df_excel has a row and a column; without the excel artifact the run
\* still succeeds and the log says that no spreadsheet was made.
C8_ArtifactsIffNotEmpty ==
  /\ Succeeded =>
       /\ "files" \in result.keys
       /\ DOMAIN result.files \subseteq {"excel", "overflow_csv"}
       /\ ("overflow_csv" \in DOMAIN result.files) <=> (Count(df_overflow) > 0)
       /\ ("excel" \in DOMAIN result.files) <=>
            (Count(df_excel) > 0 /\ Len(df_excel.columns) > 0)
       /\ ("excel" \notin DOMAIN result.files) <=>
            (\E i \in 1..Len(result.logs) : result.logs[i].msg = "excel_empty")
       /\ result.logs[Len(result.logs)].msg = "finished"
       /\ pc = "shown" => downloads = DOMAIN result.files
  /\ (pc \in {"returned", "shown"} /\ uploaded_file.valid
        /\ (Count(df_excel) = 0 \/ Len(df_excel.columns) = 0)) => result.success

C8_Witness ==
  /\ Succeeded
  /\ pc = "shown"
  /\ Count(df_excel) = 0
  /\ DOMAIN result.files = {"overflow_csv"}

\* C9: right after the drop step the table has lost exactly the configured
\* drop columns that were present, keeps the other columns, all rows and
\* their order; the log lists the dropped columns in configured order, and
\* dropping again changes nothing.
C9_DropColumns ==
  pc = "deduplicate" =>
    /\ Range(df.columns) \ Range(df_cleaned.columns)
         = Range(df.columns) \cap Range(columns_to_drop)
    /\ InOrderOf(df_cleaned.columns, df.columns)
    /\ Labels(df_cleaned) = Labels(df)
    /\ \A i \in 1..Len(df.rows) :
         /\ DOMAIN df_cleaned.rows[i].cells = Range(df_cleaned.columns)
         /\ \A c \in Range(df_cleaned.columns) :
              df_cleaned.rows[i].cells[c] = df.rows[i].cells[c]
    /\ Range(logs[2].cols) = Range(df.columns) \cap Range(columns_to_drop)
    /\ InOrderOf(logs[2].cols, columns_to_drop)
    /\ DropCols(df_cleaned, ColsIn(columns_to_drop, df_cleaned)) = df_cleaned

C9_Witness ==
  /\ pc = "deduplicate"
  /\ logs[2].cols = <<"ESRS", "DR">>
  /\ df.columns = HeaderUniverse
  /\ Count(df_cleaned) = MaxRows

\* C10: with a Value column, a row whose Value cell is missing is measured
\* as the empty text and lands in df_excel, never in df_overflow.
C10_MissingValueIsPrimary ==
  (Partitioned /\ "Value" \in Range(df_cleaned.columns)) =>
    \A i \in 1..Len(df_cleaned.rows) :
      LET r == df_cleaned.rows[i]
      IN df.rows[r.idx].cells["Value"].isna =>
           /\ Len(r.cells["Value"].v) = 0
           /\ r \in Range(df_excel.rows)
           /\ r \notin Range(df_overflow.rows)

====
